---- MODULE Spec2Model ----
(***************************************************************************)
(* Model of the secure external-command execution and streaming subsystem  *)
(* of neuvector-demo: the command validators and the Kubectl executor      *)
(* (app/core/kubectl.py), the websocket session handler                    *)
(* (app/api/websocket.py), the connection manager                          *)
(* (app/core/websocket_manager.py) and the diagnostic probes that spawn    *)
(* processes on their own (app/api/routes.py).                             *)
(*                                                                         *)
(* Names (namespaces, pod names) are sequences of one-character strings so *)
(* that the validators are computed character by character.  The empty     *)
(* sequence stands for both None and "" (the code only tests truthiness).  *)
(***************************************************************************)
EXTENDS Integers, Sequences, FiniteSets, TLC

\* ------------------------------------------------------------------ bounds
\* number of lines a child process may write before it stops writing: under
\* the direct caller, and under a session
MaxLines == 2
MaxSessionLines == 1
\* number of processes the model lets the system spawn in one behaviour
MaxSpawn == 3
\* length of the strings the validators are applied to exhaustively
MaxNameLen == 3

\* ------------------------------------------------------- static configuration
Lower ==
  {"a","b","c","d","e","f","g","h","i","j","k","l","m",
   "n","o","p","q","r","s","t","u","v","w","x","y","z"}

Digit == {"0","1","2","3","4","5","6","7","8","9"}

NAMESPACE == <<"n","e","u","v","e","c","t","o","r","-","d","e","m","o">>

NEUVECTOR_NAMESPACE == <<"n","e","u","v","e","c","t","o","r">>

FORBIDDEN_NAMESPACE ==
  <<"u","n","t","r","u","s","t","e","d","-","n","a","m","e","s","p","a","c","e">>

DEFAULT_NS == <<"d","e","f","a","u","l","t">>

ALLOWED_NAMESPACES ==
  {NAMESPACE, NEUVECTOR_NAMESPACE, DEFAULT_NS, FORBIDDEN_NAMESPACE}

ALLOWED_KUBECTL_COMMANDS ==
  {"get", "apply", "delete", "create", "exec", "wait", "describe", "logs"}

\* ---------------------------------------------------------------- validators
\* [a-z0-9]([-a-z0-9]*[a-z0-9])? over the whole of t
PatternBody(t) ==
  /\ Len(t) >= 1
  /\ t[1] \in Lower \cup Digit
  /\ t[Len(t)] \in Lower \cup Digit
  /\ \A i \in 1..Len(t) : t[i] \in Lower \cup Digit \cup {"-"}

\* re.match(r'^...$', s): '$' matches at the end of s and also just before a
\* newline that is the last character of s
PatternMatch(s) ==
  \/ PatternBody(s)
  \/ /\ Len(s) >= 1
     /\ s[Len(s)] = "\n"
     /\ PatternBody(SubSeq(s, 1, Len(s) - 1))

validate_pod_name(name) ==
  IF name = <<>> \/ Len(name) > 253 THEN FALSE ELSE PatternMatch(name)

\* (mutation of validate_namespace: the allowed set is not consulted)
validate_namespace_NoAllowlist(namespace) ==
  IF namespace = <<>> \/ Len(namespace) > 63 THEN FALSE
  ELSE PatternMatch(namespace)

validate_namespace(namespace) ==
  IF namespace = <<>> \/ Len(namespace) > 63 THEN FALSE
  ELSE IF ~PatternMatch(namespace) THEN FALSE
  ELSE namespace \in ALLOWED_NAMESPACES

validate_command(command) == command \in ALLOWED_KUBECTL_COMMANDS

\* ------------------------------------------------------------------- callers
\* the two websocket sessions and one direct caller of the executor
Sessions == {"A", "B"}

Direct == "api"

Callers == Sessions \cup {Direct}

\* ---------------------------------------------------------- inputs explored
KUBE_SYSTEM == <<"k","u","b","e","-","s","y","s","t","e","m">>

BAD_NS == <<"D","e","f","a","u","l","t","!">>

NsInputs == {<<>>, DEFAULT_NS, KUBE_SYSTEM, BAD_NS}

DefaultNsInputs == {<<>>, NAMESPACE}

ArgsInputs == {<<>>, <<"get", "pods">>, <<"config", "view">>}

GOOD_POD == <<"p","r","o","d","u","c","t","i","o","n","1">>

BAD_POD == <<"p","o","d",";","r","m">>

PodInputs == {GOOD_POD, BAD_POD}

\* ------------------------------------------------------------------- lines
\* line n as the child writes it; ws: it ends in blanks before the newline
ChildLine(n) == [tag |-> "data", n |-> n, ws |-> (n % 2 = 1)]

\* line.decode("utf-8").rstrip()
Rstrip(l) == [l EXCEPT !.ws = FALSE]

TimeoutLine == [tag |-> "timeout", n |-> 0, ws |-> FALSE]

ExcLine == [tag |-> "exception", n |-> 0, ws |-> FALSE]

InfoLine(n) == [tag |-> "info", n |-> n, ws |-> FALSE]

\* ------------------------------------------------------------------- state
VARIABLES
  kpc,                 \* position of each caller inside run / run_streaming
  kreq,                \* the request of the caller's current or last call
  kres,                \* what the caller observed: kind of result, and cause
  proc,                \* the process spawned by the caller's current call
  pipe,                \* lines written by the child and not yet read
  timer,               \* the timeout armed around the wait or the read loop
  yielded,             \* lines run_streaming has yielded in the current call
  spawned,             \* the processes spawned by the latest operation that spawned
  spawnCount,          \* number of processes spawned so far
  kprev,               \* what the caller observed in the call before this one
  active_connections,  \* ConnectionManager.active_connections: id -> channel
  hpc,                 \* position of each session's handler task
  cid,                 \* client_id of each session's handler
  chan,                \* state of each session's channel: open or broken
  inbox,               \* frames delivered on each channel for the current action
  nextId,              \* source of fresh client ids (uuid4)
  vname,               \* the value handed to validate_pod_name / validate_namespace
  vresult,             \* what the two validators returned for vname
  cmdIn,               \* a call of run / run_streaming: instance and arguments
  cmdOut,              \* the argv that call hands to create_subprocess_exec
  mcall,               \* the latest connect / disconnect call and the table before it
  bcast,               \* the task running ConnectionManager.broadcast
  diag                 \* the task running run_diagnostics, its probes and its client

execVars == <<kpc, kreq, kres, proc, pipe, timer, yielded, spawned, spawnCount, kprev>>

sessVars == <<active_connections, hpc, cid, chan, inbox, nextId>>

valVars == <<vname, vresult, cmdIn, cmdOut, mcall, bcast, diag>>

vars == <<kpc, kreq, kres, proc, pipe, timer, yielded, spawned, spawnCount,
          kprev, active_connections, hpc, cid, chan, inbox, nextId, vname, vresult,
          cmdIn, cmdOut, mcall, bcast, diag>>

\* pod, target: the pod name and the namespace that the arguments name
NoReq ==
  [op |-> "none", args |-> <<>>, ns |-> <<>>, check |-> FALSE, pod |-> <<>>,
   target |-> <<>>]

\* what a call handed to its caller: the kind of result or error, its cause,
\* and for run the exit code returned and the captured text carried
Res(kind, cause) == [kind |-> kind, cause |-> cause, code |-> 0, text |-> <<>>]

NoRes == Res("none", "none")

NoProc == [state |-> "none", out |-> "closed", rc |-> 0, kills |-> 0, written |-> 0]

NoId == 0

NoVerdict == [done |-> FALSE, pod |-> FALSE, ns |-> FALSE]

\* no broadcast in progress.  used, len, pos: the iterator of
\* active_connections.items(); cur, ws: the entry being sent to; disconnected:
\* the local list of failed ids; got: the ids the message was delivered to;
\* start: the table when the broadcast began
NoBroadcast ==
  [pc |-> "idle", used |-> 0, len |-> 0, pos |-> 0, cur |-> NoId, ws |-> "",
   disconnected |-> {}, got |-> <<>>, start |-> <<>>]

\* the ids of the eight checks, in the order run_diagnostics lists them
InfraChecks == <<"kubernetes", "neuvector-api">>

EnvChecks == <<"demo-namespace", "demo-pods">>

ConfigChecks ==
  <<"neuvector-groups", "process-profiles", "dlp-sensors", "admission-control">>

AllChecks == InfraChecks \o EnvChecks \o ConfigChecks

Members(ids) == {ids[k] : k \in DOMAIN ids}

\* no diagnostics run yet.  probe: each check coroutine; faulted: the checks
\* whose body raised; reordered: a probe resolved before an earlier sibling;
\* checks, api: the locals of run_diagnostics (bound: api is not None);
\* nv: the NeuVectorAPI object, after __init__ without token and without
\* http client; authed: authenticate() succeeded
NoRun ==
  [pc |-> "idle", password |-> FALSE, probe |-> [c \in Members(AllChecks) |-> "idle"],
   faulted |-> {}, reordered |-> FALSE, checks |-> <<>>, bound |-> FALSE,
   nv |-> [token |-> FALSE, client |-> "none"], authed |-> FALSE,
   response |-> [kind |-> "none", success |-> FALSE, checks |-> <<>>,
                 summary |-> [total |-> 0, ok |-> 0, warning |-> 0, error |-> 0]]]

\* the executor, the manager and the handlers after construction
InitSystem ==
  /\ kpc = [c \in Callers |-> "idle"]
  /\ kreq = [c \in Callers |-> NoReq]
  /\ kres = [c \in Callers |-> NoRes]
  /\ proc = [c \in Callers |-> NoProc]
  /\ pipe = [c \in Callers |-> <<>>]
  /\ timer = [c \in Callers |-> "off"]
  /\ yielded = [c \in Callers |-> <<>>]
  /\ spawned = {}
  /\ spawnCount = 0
  /\ kprev = [c \in Callers |-> [op |-> "none", kind |-> "none", cause |-> "none"]]
  /\ active_connections = <<>>
  /\ hpc = [h \in Sessions |-> "absent"]
  /\ cid = [h \in Sessions |-> NoId]
  /\ chan = [h \in Sessions |-> "open"]
  /\ inbox = [h \in Sessions |-> <<>>]
  /\ nextId = 1
  /\ mcall = [op |-> "none", id |-> NoId, before |-> <<>>, after |-> <<>>]
  /\ bcast = NoBroadcast
  /\ diag = NoRun

NoCmdIn == [op |-> "none", kubeconfig |-> "", args |-> <<>>, namespace |-> <<>>,
            default_namespace |-> <<>>]

NoCmdOut == [state |-> "none", argv |-> <<>>]

Init ==
  /\ InitSystem
  /\ vname = <<>>
  /\ vresult = NoVerdict
  /\ cmdIn = NoCmdIn
  /\ cmdOut = NoCmdOut

\* ------------------------------------------------------------ the executor
\* ns = namespace or self.default_namespace
EffectiveNs(namespace, dflt) == IF namespace # <<>> THEN namespace ELSE dflt

\* (mutation of Rejected: the namespace is not checked)
Rejected_NoNamespaceCheck(args, ns) ==
  \/ args = <<>>
  \/ ~validate_command(args[1])

\* the three checks run and run_streaming make before building the command
Rejected(args, ns) ==
  \/ args = <<>>
  \/ ~validate_command(args[1])
  \/ ns # <<>> /\ ~validate_namespace(ns)

\* a spawned process: the operation that spawned it, its subcommand, the
\* namespace of its '-n' pair, the pod and the namespace its arguments name,
\* and what had been validated when it was spawned
SpawnRec(via, args, ns, checked, pod, target) ==
  [via |-> via, sub |-> args[1], ns |-> ns, checked |-> checked,
   pod |-> pod, target |-> target]

NewProc == [state |-> "running", out |-> "open", rc |-> 0, kills |-> 0, written |-> 0]

\* process.kill(): SIGKILL, the child dies and its pipes close
Killed(p) == [p EXCEPT !.state = "exited", !.out = "closed", !.rc = -9, !.kills = @ + 1]

\* the outcome of the call that a new call replaces
PrevOf(c) == [op |-> kreq[c].op, kind |-> kres[c].kind, cause |-> kres[c].cause]

\* a call that spawns nothing: validation error, or failure to spawn
EndCall(c, req, pos, kind, cause, ys) ==
  /\ kpc' = [kpc EXCEPT ![c] = pos]
  /\ kreq' = [kreq EXCEPT ![c] = req]
  /\ kres' = [kres EXCEPT ![c] = Res(kind, cause)]
  /\ proc' = [proc EXCEPT ![c] = NoProc]
  /\ pipe' = [pipe EXCEPT ![c] = <<>>]
  /\ timer' = [timer EXCEPT ![c] = "off"]
  /\ yielded' = [yielded EXCEPT ![c] = ys]
  /\ kprev' = [kprev EXCEPT ![c] = PrevOf(c)]
  /\ UNCHANGED <<spawned, spawnCount>>

\* asyncio.create_subprocess_exec succeeded: the call now waits or reads
BeginCall(c, req, pos) ==
  /\ kpc' = [kpc EXCEPT ![c] = pos]
  /\ kreq' = [kreq EXCEPT ![c] = req]
  /\ kres' = [kres EXCEPT ![c] = NoRes]
  /\ proc' = [proc EXCEPT ![c] = NewProc]
  /\ pipe' = [pipe EXCEPT ![c] = <<>>]
  /\ timer' = [timer EXCEPT ![c] = "armed"]
  /\ yielded' = [yielded EXCEPT ![c] = <<>>]
  /\ spawned' = {SpawnRec(req.op, req.args, req.ns,
                           {"command"} \cup
                           (IF req.ns # <<>> THEN {"namespace"} ELSE {}) \cup
                           (IF req.op = "exec_in_pod" THEN {"pod"} ELSE {}) \cup
                           (IF req.op = "delete_namespace" THEN {"target"} ELSE {}),
                           req.pod, req.target)}
  /\ spawnCount' = spawnCount + 1
  /\ kprev' = [kprev EXCEPT ![c] = PrevOf(c)]

\* Kubectl.run up to the wait on process.communicate()
\* (op: the operation on whose behalf run is called; target: the namespace
\* that args names)
RunOp(c, op, args, target, namespace, dflt, check) ==
  LET ns == EffectiveNs(namespace, dflt)
      req == [op |-> op, args |-> args, ns |-> ns, check |-> check, pod |-> <<>>,
              target |-> target]
  IN  /\ kpc[c] \in {"idle", "done"}
      /\ spawnCount < MaxSpawn
      /\ IF Rejected(args, ns)
         THEN EndCall(c, req, "done", "KubectlValidationError", "validation", <<>>)
         ELSE \/ BeginCall(c, req, "run_wait")
              \/ EndCall(c, req, "done", "OSError", "spawn", <<>>)

RunStart(c, args, namespace, dflt, check) ==
  RunOp(c, "run", args, <<>>, namespace, dflt, check)

\* Kubectl.apply_file: run("apply", "-f", filepath, namespace=namespace)
apply_file(c, namespace, dflt) ==
  RunOp(c, "apply_file", <<"apply", "-f", "FILE">>, <<>>, namespace, dflt, TRUE)

\* Kubectl.delete_namespace: the namespace is validated, then
\* run("delete", "namespace", namespace[, "--wait=true"], namespace=None)
delete_namespace(c, namespace, wait, dflt) ==
  LET args == <<"delete", "namespace", "NS">> \o (IF wait THEN <<"--wait=true">> ELSE <<>>)
  IN  IF ~validate_namespace(namespace)
      THEN /\ kpc[c] \in {"idle", "done"}
           /\ spawnCount < MaxSpawn
           /\ EndCall(c, [op |-> "delete_namespace", args |-> args,
                          ns |-> EffectiveNs(<<>>, dflt), check |-> TRUE,
                          pod |-> <<>>, target |-> namespace],
                      "done", "KubectlValidationError", "validation", <<>>)
      ELSE RunOp(c, "delete_namespace", args, namespace, <<>>, dflt, TRUE)

\* Kubectl.wait_for_pods: run("wait", "--for=condition=Ready", "pods", "--all",
\* "--timeout=120s", namespace=namespace)
wait_for_pods(c, namespace, dflt) ==
  RunOp(c, "wait_for_pods",
        <<"wait", "--for=condition=Ready", "pods", "--all", "--timeout=120s">>,
        <<>>, namespace, dflt, TRUE)

\* (mutation of RunReturn: the exit code is not checked)
RunReturn_NoCheck(c) ==
  /\ kpc[c] = "run_wait"
  /\ proc[c].state = "exited"
  /\ kres' = [kres EXCEPT ![c] = [kind |-> "returned", cause |-> "none",
                                   code |-> proc[c].rc, text |-> pipe[c]]]
  /\ kpc' = [kpc EXCEPT ![c] = "done"]
  /\ timer' = [timer EXCEPT ![c] = "off"]
  /\ UNCHANGED <<kreq, proc, pipe, yielded, spawned, spawnCount, kprev>>

\* communicate() finished inside the timeout: decode, check the exit code
RunReturn(c) ==
  /\ kpc[c] = "run_wait"
  /\ proc[c].state = "exited"
  /\ LET returncode == proc[c].rc
         \* what communicate() collected (the model keeps one capture for
         \* the child's stdout and stderr)
         captured == pipe[c]
     IN  kres' = [kres EXCEPT ![c] =
                    IF kreq[c].check /\ returncode # 0
                    THEN [kind |-> "KubectlError", cause |-> "nonzero",
                          code |-> 0, text |-> captured]
                    ELSE [kind |-> "returned", cause |-> "none",
                          code |-> returncode, text |-> captured]]
  /\ kpc' = [kpc EXCEPT ![c] = "done"]
  /\ timer' = [timer EXCEPT ![c] = "off"]
  /\ UNCHANGED <<kreq, proc, pipe, yielded, spawned, spawnCount, kprev>>

\* asyncio.wait_for expired: communicate() is cancelled and the handler of
\* asyncio.TimeoutError raises KubectlError; nothing signals the process
RunTimeout(c) ==
  /\ kpc[c] = "run_wait"
  /\ timer[c] = "armed"
  /\ proc[c].state = "running"
  /\ kpc' = [kpc EXCEPT ![c] = "done"]
  /\ timer' = [timer EXCEPT ![c] = "off"]
  /\ kres' = [kres EXCEPT ![c] = Res("KubectlError", "timeout")]
  /\ UNCHANGED <<kreq, proc, pipe, yielded, spawned, spawnCount, kprev>>

\* Kubectl.run_streaming from the first __anext__ up to the first readline; a
\* failure to spawn is caught by 'except Exception' and yielded as a line
StreamStart(c, op, args, pod, namespace, dflt) ==
  LET ns == EffectiveNs(namespace, dflt)
      req == [op |-> op, args |-> args, ns |-> ns, check |-> FALSE, pod |-> pod,
              target |-> <<>>]
  IN  /\ kpc[c] \in {"idle", "done"}
      /\ spawnCount < MaxSpawn
      /\ IF Rejected(args, ns)
         THEN EndCall(c, req, "done", "KubectlValidationError", "validation", <<>>)
         ELSE \/ BeginCall(c, req, "s_read")
              \/ EndCall(c, req, "s_yield_exc", "none", "spawn", <<ExcLine>>)

\* Kubectl.exec_in_pod: the pod name is validated, then run_streaming does the
\* rest; args stands for ["exec", pod_name, "--", *command]
ExecInPodStart(c, pod, namespace, dflt) ==
  IF ~validate_pod_name(pod)
  THEN /\ kpc[c] \in {"idle", "done"}
       /\ spawnCount < MaxSpawn
       /\ EndCall(c, [op |-> "exec_in_pod", args |-> <<"exec", "POD", "--", "curl">>,
                      ns |-> EffectiveNs(namespace, dflt), check |-> FALSE, pod |-> pod,
                      target |-> <<>>],
                  "done", "KubectlValidationError", "validation", <<>>)
  ELSE StreamStart(c, "exec_in_pod", <<"exec", "POD", "--", "curl">>, pod, namespace, dflt)

\* read_with_timeout: readline returned a line, which is decoded, stripped
\* and yielded
StreamReadLine(c) ==
  /\ kpc[c] = "s_read"
  /\ pipe[c] # <<>>
  /\ yielded' = [yielded EXCEPT ![c] = Append(@, Rstrip(Head(pipe[c])))]
  /\ pipe' = [pipe EXCEPT ![c] = Tail(@)]
  /\ kpc' = [kpc EXCEPT ![c] = "s_yield"]
  /\ UNCHANGED <<kreq, kres, proc, timer, spawned, spawnCount, kprev>>

\* read_with_timeout: readline returned b"" (end of stream): the loop breaks,
\* the timeout context is left and run_streaming awaits process.wait()
StreamEOF(c) ==
  /\ kpc[c] = "s_read"
  /\ pipe[c] = <<>>
  /\ proc[c].out = "closed"
  /\ kpc' = [kpc EXCEPT ![c] = "s_wait"]
  /\ timer' = [timer EXCEPT ![c] = "off"]
  /\ UNCHANGED <<kreq, kres, proc, pipe, yielded, spawned, spawnCount, kprev>>

\* (mutation of StreamTimeout: the process is not killed)
StreamTimeout_NoKill(c) ==
  /\ kpc[c] = "s_read"
  /\ timer[c] = "armed"
  /\ pipe[c] = <<>>
  /\ proc[c].out = "open"
  /\ yielded' = [yielded EXCEPT ![c] = Append(@, TimeoutLine)]
  /\ timer' = [timer EXCEPT ![c] = "off"]
  /\ kres' = [kres EXCEPT ![c] = Res("none", "timeout")]
  /\ kpc' = [kpc EXCEPT ![c] = "s_yield_to"]
  /\ UNCHANGED <<kreq, proc, pipe, spawned, spawnCount, kprev>>

\* read_with_timeout: the deadline passes while readline is suspended; the
\* TimeoutError is caught, the process killed and the timeout line yielded
StreamTimeout(c) ==
  /\ kpc[c] = "s_read"
  /\ timer[c] = "armed"
  /\ pipe[c] = <<>>
  /\ proc[c].out = "open"
  /\ proc' = [proc EXCEPT ![c] = Killed(@)]
  /\ yielded' = [yielded EXCEPT ![c] = Append(@, TimeoutLine)]
  /\ timer' = [timer EXCEPT ![c] = "off"]
  /\ kres' = [kres EXCEPT ![c] = Res("none", "timeout")]
  /\ kpc' = [kpc EXCEPT ![c] = "s_yield_to"]
  /\ UNCHANGED <<kreq, pipe, spawned, spawnCount, kprev>>

\* the consumer asks for the next line: the generator resumes after its yield
StreamResume(c) ==
  /\ kpc[c] \in {"s_yield", "s_yield_to", "s_yield_exc"}
  /\ kpc' = [kpc EXCEPT ![c] = CASE kpc[c] = "s_yield" -> "s_read"
                                 [] kpc[c] = "s_yield_to" -> "s_wait"
                                 [] kpc[c] = "s_yield_exc" -> "done"]
  /\ kres' = [kres EXCEPT ![c] = IF kpc[c] = "s_yield_exc"
                                 THEN Res("ended", @.cause) ELSE @]
  /\ UNCHANGED <<kreq, proc, pipe, timer, yielded, spawned, spawnCount, kprev>>

\* run_streaming: process.wait() returned, the generator is exhausted
StreamWaitDone(c) ==
  /\ kpc[c] = "s_wait"
  /\ proc[c].state = "exited"
  /\ kpc' = [kpc EXCEPT ![c] = "done"]
  /\ kres' = [kres EXCEPT ![c] = Res("ended", @.cause)]
  /\ UNCHANGED <<kreq, proc, pipe, timer, yielded, spawned, spawnCount, kprev>>

\* the deadline passes while the generator is suspended at a yield inside the
\* timeout context: the task is cancelled where it is, in the consumer, which
\* gets CancelledError; the abandoned generator never reaches process.kill()
StreamCancelledAtYield(c) ==
  /\ kpc[c] = "s_yield"
  /\ timer[c] = "armed"
  /\ kpc' = [kpc EXCEPT ![c] = "done"]
  /\ timer' = [timer EXCEPT ![c] = "off"]
  /\ kres' = [kres EXCEPT ![c] = Res("CancelledError", "timeout")]
  /\ UNCHANGED <<kreq, proc, pipe, yielded, spawned, spawnCount, kprev>>

\* ------------------------------------------------------- the child process
\* the child is followed while the call that spawned it is in progress
LineBound(c) == IF c = Direct THEN MaxLines ELSE MaxSessionLines

ChildWrite(c) ==
  /\ proc[c].state = "running"
  /\ proc[c].out = "open"
  /\ proc[c].written < LineBound(c)
  /\ kpc[c] \in {"run_wait", "s_read", "s_yield"}
  /\ pipe' = [pipe EXCEPT ![c] = Append(@, ChildLine(proc[c].written + 1))]
  /\ proc' = [proc EXCEPT ![c].written = @ + 1]
  /\ UNCHANGED <<kpc, kreq, kres, timer, yielded, spawned, spawnCount, kprev>>

\* the child closes its output without exiting
ChildCloseOut(c) ==
  /\ kpc[c] \notin {"idle", "done"}
  /\ proc[c].state = "running"
  /\ proc[c].out = "open"
  /\ proc' = [proc EXCEPT ![c].out = "closed"]
  /\ UNCHANGED <<kpc, kreq, kres, pipe, timer, yielded, spawned, spawnCount, kprev>>

\* the child exits on its own; a child that outlived its call can still exit
ChildExit(c, rc) ==
  /\ kpc[c] # "idle"
  /\ proc[c].state = "running"
  /\ proc' = [proc EXCEPT ![c].state = "exited", ![c].out = "closed", ![c].rc = rc]
  /\ UNCHANGED <<kpc, kreq, kres, pipe, timer, yielded, spawned, spawnCount, kprev>>

ExitCodes == {0, 1}

\* ------------------------------------- operations that spawn on their own
\* how one spawned-and-awaited process turns out
ProcOutcomes == {"spawn_failed", "rc0", "rc1", "timeout"}

\* Kubectl.get_cluster_info: up to three processes built from
\* _build_base_command and spawned directly; o1, o2, o3 are their kprev
ClusterInfoSpawns(in_cluster, has_kubeconfig, o1, o2, o3) ==
  (IF ~in_cluster /\ has_kubeconfig /\ o1 # "spawn_failed"
   THEN <<SpawnRec("get_cluster_info", <<"config", "current-context">>, <<>>, {},
                   <<>>, <<>>)>>
   ELSE <<>>)
  \o (IF o2 # "spawn_failed"
      THEN <<SpawnRec("get_cluster_info", <<"get", "namespace">>, <<>>, {},
                      <<>>, KUBE_SYSTEM)>>
      ELSE <<>>)
  \o (IF o2 = "rc0" /\ o3 # "spawn_failed"
      THEN <<SpawnRec("get_cluster_info", <<"get", "nodes">>, <<>>, {}, <<>>, <<>>)>>
      ELSE <<>>)

SeqRange(q) == {q[i] : i \in 1..Len(q)}

\* (an outcome of a process that is never started is fixed to "rc0")
get_cluster_info(in_cluster, has_kubeconfig, o1, o2, o3) ==
  LET new == ClusterInfoSpawns(in_cluster, has_kubeconfig, o1, o2, o3)
  IN  /\ (in_cluster \/ ~has_kubeconfig) => o1 = "rc0"
      /\ o2 # "rc0" => o3 = "rc0"
      /\ spawnCount + Len(new) <= MaxSpawn
      /\ spawned' = IF new = <<>> THEN spawned ELSE SeqRange(new)
      /\ spawnCount' = spawnCount + Len(new)
      /\ UNCHANGED <<kpc, kreq, kres, proc, pipe, timer, yielded, kprev>>

\* routes._check_demo_namespace: kubectl get namespace NAMESPACE -o name
check_demo_namespace(o) ==
  /\ spawnCount < MaxSpawn
  /\ o # "spawn_failed"
  /\ spawned' = {SpawnRec("_check_demo_namespace", <<"get", "namespace">>, <<>>, {},
                          <<>>, NAMESPACE)}
  /\ spawnCount' = spawnCount + 1
  /\ UNCHANGED <<kpc, kreq, kres, proc, pipe, timer, yielded, kprev>>

\* routes._check_demo_pods: kubectl -n NAMESPACE get pods -o jsonpath=...
check_demo_pods(o) ==
  /\ spawnCount < MaxSpawn
  /\ o # "spawn_failed"
  /\ spawned' = {SpawnRec("_check_demo_pods", <<"get", "pods">>, NAMESPACE, {},
                          <<>>, <<>>)}
  /\ spawnCount' = spawnCount + 1
  /\ UNCHANGED <<kpc, kreq, kres, proc, pipe, timer, yielded, kprev>>

\* --------------------------------------- specification of the executor alone
\* one caller uses the executor directly, one call at a time
ApiRun ==
  /\ \E args \in ArgsInputs, namespace \in NsInputs, dflt \in DefaultNsInputs,
        check \in BOOLEAN : RunStart(Direct, args, namespace, dflt, check)
  /\ UNCHANGED <<sessVars, valVars>>

ApiRunStreaming ==
  /\ \E args \in ArgsInputs, namespace \in NsInputs, dflt \in DefaultNsInputs :
        StreamStart(Direct, "run_streaming", args, <<>>, namespace, dflt)
  /\ UNCHANGED <<sessVars, valVars>>

ApiExecInPod ==
  /\ \E pod \in PodInputs, namespace \in NsInputs, dflt \in DefaultNsInputs :
        ExecInPodStart(Direct, pod, namespace, dflt)
  /\ UNCHANGED <<sessVars, valVars>>

ApiGetClusterInfo ==
  /\ kpc[Direct] \in {"idle", "done"}
  /\ \E in_cluster \in BOOLEAN, has_kubeconfig \in BOOLEAN,
        o1 \in ProcOutcomes, o2 \in ProcOutcomes, o3 \in ProcOutcomes :
        get_cluster_info(in_cluster, has_kubeconfig, o1, o2, o3)
  /\ UNCHANGED <<sessVars, valVars>>

ApiCheckDemoNamespace ==
  /\ kpc[Direct] \in {"idle", "done"}
  /\ \E o \in ProcOutcomes : check_demo_namespace(o)
  /\ UNCHANGED <<sessVars, valVars>>

ApiCheckDemoPods ==
  /\ kpc[Direct] \in {"idle", "done"}
  /\ \E o \in ProcOutcomes : check_demo_pods(o)
  /\ UNCHANGED <<sessVars, valVars>>

ApiRunReturn == RunReturn(Direct) /\ UNCHANGED <<sessVars, valVars>>

ApiRunTimeout == RunTimeout(Direct) /\ UNCHANGED <<sessVars, valVars>>

ApiStreamReadLine == StreamReadLine(Direct) /\ UNCHANGED <<sessVars, valVars>>

ApiStreamEOF == StreamEOF(Direct) /\ UNCHANGED <<sessVars, valVars>>

ApiStreamTimeout == StreamTimeout(Direct) /\ UNCHANGED <<sessVars, valVars>>

ApiStreamResume == StreamResume(Direct) /\ UNCHANGED <<sessVars, valVars>>

ApiStreamWaitDone == StreamWaitDone(Direct) /\ UNCHANGED <<sessVars, valVars>>

ApiStreamCancelledAtYield == StreamCancelledAtYield(Direct) /\ UNCHANGED <<sessVars, valVars>>

ApiChildWrite == ChildWrite(Direct) /\ UNCHANGED <<sessVars, valVars>>

ApiChildCloseOut == ChildCloseOut(Direct) /\ UNCHANGED <<sessVars, valVars>>

ApiChildExit == (\E rc \in ExitCodes : ChildExit(Direct, rc)) /\ UNCHANGED <<sessVars, valVars>>

NextExec ==
  \/ ApiRun
  \/ ApiRunStreaming
  \/ ApiExecInPod
  \/ ApiGetClusterInfo
  \/ ApiCheckDemoNamespace
  \/ ApiCheckDemoPods
  \/ ApiRunReturn
  \/ ApiRunTimeout
  \/ ApiStreamReadLine
  \/ ApiStreamEOF
  \/ ApiStreamTimeout
  \/ ApiStreamResume
  \/ ApiStreamWaitDone
  \/ ApiStreamCancelledAtYield
  \/ ApiChildWrite
  \/ ApiChildCloseOut
  \/ ApiChildExit

SpecExec == Init /\ [][NextExec]_vars

\* ------------------------------ specification of the specialized operations
\* one caller uses the specialized operations of the executor, one at a time
OpsApplyFile ==
  /\ \E namespace \in NsInputs, dflt \in DefaultNsInputs :
        apply_file(Direct, namespace, dflt)
  /\ UNCHANGED <<sessVars, valVars>>

OpsDeleteNamespace ==
  /\ \E namespace \in NsInputs, wait \in BOOLEAN, dflt \in DefaultNsInputs :
        delete_namespace(Direct, namespace, wait, dflt)
  /\ UNCHANGED <<sessVars, valVars>>

OpsWaitForPods ==
  /\ \E namespace \in NsInputs, dflt \in DefaultNsInputs :
        wait_for_pods(Direct, namespace, dflt)
  /\ UNCHANGED <<sessVars, valVars>>

NextOps ==
  \/ OpsApplyFile
  \/ OpsDeleteNamespace
  \/ OpsWaitForPods
  \/ ApiExecInPod
  \/ ApiGetClusterInfo
  \/ ApiRunReturn
  \/ ApiRunTimeout
  \/ ApiStreamReadLine
  \/ ApiStreamEOF
  \/ ApiStreamTimeout
  \/ ApiStreamResume
  \/ ApiStreamWaitDone
  \/ ApiStreamCancelledAtYield
  \/ ApiChildWrite
  \/ ApiChildCloseOut
  \/ ApiChildExit

SpecOps == Init /\ [][NextOps]_vars

\* --------------------------------------- specification of the validators
\* the values the validators are applied to: every string of at most
\* MaxNameLen characters over NameAlphabet, the configured namespaces and the
\* names above, those with a newline appended, and names at the length limits
NameAlphabet == {"a", "1", "-", "A", " ", ";", "\n"}

LongName(n) == [i \in 1..n |-> "a"]

NameInputs ==
  UNION {[1..k -> NameAlphabet] : k \in 0..MaxNameLen}
    \cup ALLOWED_NAMESPACES
    \cup {Append(a, "\n") : a \in ALLOWED_NAMESPACES}
    \cup {KUBE_SYSTEM, BAD_NS, GOOD_POD, BAD_POD, Append(GOOD_POD, "\n")}
    \cup {LongName(63), LongName(64), LongName(253), LongName(254)}

InitValidate ==
  /\ InitSystem
  /\ vname \in NameInputs
  /\ vresult = NoVerdict
  /\ cmdIn = NoCmdIn
  /\ cmdOut = NoCmdOut

\* validate_pod_name(vname) and validate_namespace(vname) are called
ValidateName ==
  /\ ~vresult.done
  /\ vresult' = [done |-> TRUE, pod |-> validate_pod_name(vname),
                  ns |-> validate_namespace(vname)]
  /\ UNCHANGED <<vname, cmdIn, cmdOut, execVars, sessVars, mcall, bcast, diag>>

SpecValidate == InitValidate /\ [][ValidateName]_vars

\* ------------------------------------- specification of the command vector
\* an element of argv: a literal string, or a namespace name
Lit(s) == [lit |-> s, name |-> <<>>]

NsTok(v) == [lit |-> "", name |-> v]

\* Kubectl._build_base_command
build_base_command(kubeconfig) ==
  <<Lit("kubectl")>>
    \o (IF kubeconfig # "" THEN <<Lit("--kubeconfig"), Lit(kubeconfig)>> ELSE <<>>)

\* (mutation of BuildCommand: the arguments are joined into one element)
BuildCommand_Joined(kubeconfig, args, ns) ==
  build_base_command(kubeconfig)
    \o (IF ns # <<>> THEN <<Lit("-n"), NsTok(ns)>> ELSE <<>>)
    \o <<Lit("joined")>>

\* run / run_streaming: cmd = base command, then '-n' ns if ns, then args
BuildCommand(kubeconfig, args, ns) ==
  build_base_command(kubeconfig)
    \o (IF ns # <<>> THEN <<Lit("-n"), NsTok(ns)>> ELSE <<>>)
    \o [i \in 1..Len(args) |-> Lit(args[i])]

KubeconfigInputs == {"", "/root/.kube/config"}

ArgvArgsInputs ==
  ArgsInputs \cup
    {<<"get", "pods -A; id">>,
     <<"delete", "namespace", "NS", "--wait=true">>,
     <<"exec", "POD", "--", "sh", "-c", "echo a b">>}

InitArgv ==
  /\ InitSystem
  /\ vname = <<>>
  /\ vresult = NoVerdict
  /\ cmdIn \in [op : {"run", "run_streaming"}, kubeconfig : KubeconfigInputs,
                 args : ArgvArgsInputs, namespace : NsInputs,
                 default_namespace : DefaultNsInputs]
  /\ cmdOut = NoCmdOut

\* run / run_streaming from entry to create_subprocess_exec(*cmd): the
\* checks, then the command vector
SpawnCommand ==
  /\ cmdOut.state = "none"
  /\ LET ns == EffectiveNs(cmdIn.namespace, cmdIn.default_namespace)
     IN  cmdOut' = IF Rejected(cmdIn.args, ns)
                   THEN [state |-> "rejected", argv |-> <<>>]
                   ELSE [state |-> "spawned",
                         argv |-> BuildCommand(cmdIn.kubeconfig, cmdIn.args, ns)]
  /\ UNCHANGED <<cmdIn, vname, vresult, execVars, sessVars, mcall, bcast, diag>>

SpecArgv == InitArgv /\ [][SpawnCommand]_vars

\* ------------------------------------------------- the connection manager
NoLine == [tag |-> "none", n |-> 0, ws |-> FALSE]

\* the frames send_status / send_output / send_error / send_complete build;
\* src is the handler that asked for the frame
StatusFrame(h) == [type |-> "status", data |-> NoLine, success |-> FALSE, src |-> h]

OutputFrame(h, line) == [type |-> "output", data |-> line, success |-> FALSE, src |-> h]

ErrorFrame(h) == [type |-> "error", data |-> NoLine, success |-> FALSE, src |-> h]

CompleteFrame(h, success) == [type |-> "complete", data |-> NoLine, success |-> success, src |-> h]

\* (mutation of Disconnected: the table is cleared when the id is in it)
Disconnected_Clear(conns, client_id) ==
  IF client_id \in DOMAIN conns THEN <<>> ELSE conns

\* ConnectionManager.disconnect
Disconnected(conns, client_id) ==
  [i \in DOMAIN conns \ {client_id} |-> conns[i]]

\* (mutation of SendTargets: the message goes to every connected channel)
SendTargets_Everyone(conns, client_id) ==
  IF client_id \in DOMAIN conns THEN {conns[i] : i \in DOMAIN conns} ELSE {}

\* ConnectionManager.send_message: the channels a message for client_id goes to
SendTargets(conns, client_id) ==
  IF client_id \in DOMAIN conns THEN {conns[client_id]} ELSE {}

\* (mutation of Raises: send_json never raises)
Raises_Never(w) == FALSE

\* websocket.send_json on the channel of w raises: the channel is gone
Raises(w) == chan[w] # "open"

\* ConnectionManager.send_message applied to a run of frames, one after the
\* other: the table and the inboxes after the sends.  A channel that raises on
\* send_json gets nothing and client_id is disconnected, after which the
\* remaining sends find no entry.
RECURSIVE SendAll(_, _, _, _)
SendAll(conns, boxes, client_id, frames) ==
  IF frames = <<>> THEN [conns |-> conns, boxes |-> boxes]
  ELSE LET targets == SendTargets(conns, client_id)
       IN  IF targets = {} THEN [conns |-> conns, boxes |-> boxes]
           ELSE IF \E w \in targets : Raises(w)
           THEN [conns |-> Disconnected(conns, client_id), boxes |-> boxes]
           ELSE SendAll(conns,
                        [w \in DOMAIN boxes |->
                           IF w \in targets THEN Append(boxes[w], Head(frames))
                           ELSE boxes[w]],
                        client_id, Tail(frames))

\* the handler of session h sends frames; with fresh the inbox of h starts
\* anew (a new inbound action begins)
Send(h, frames, fresh) ==
  LET boxes == IF fresh THEN [inbox EXCEPT ![h] = <<>>] ELSE inbox
      r == SendAll(active_connections, boxes, cid[h], frames)
  IN  /\ active_connections' = r.conns
      /\ inbox' = r.boxes

\* ------------------------------------------------------ the session handler
\* websocket_endpoint up to the first receive: uuid4, manager.connect
Connect(h) ==
  /\ hpc[h] = "absent"
  /\ cid' = [cid EXCEPT ![h] = nextId]
  /\ nextId' = nextId + 1
  /\ active_connections' = [i \in DOMAIN active_connections \cup {nextId} |->
                              IF i = nextId THEN h ELSE active_connections[i]]
  /\ hpc' = [hpc EXCEPT ![h] = "recv"]
  /\ UNCHANGED <<chan, inbox>>
  /\ UNCHANGED <<execVars, valVars>>

\* the client goes away or its connection breaks
ChannelBreak(h) ==
  /\ hpc[h] \notin {"absent", "closed", "dead"}
  /\ chan[h] = "open"
  /\ chan' = [chan EXCEPT ![h] = "broken"]
  /\ UNCHANGED <<active_connections, hpc, cid, inbox, nextId>>
  /\ UNCHANGED <<execVars, valVars>>

\* receive_json raises WebSocketDisconnect: manager.disconnect, handler ends
HDisconnect(h) ==
  /\ hpc[h] = "recv"
  /\ chan[h] = "broken"
  /\ active_connections' = Disconnected(active_connections, cid[h])
  /\ hpc' = [hpc EXCEPT ![h] = "closed"]
  /\ UNCHANGED <<cid, chan, inbox, nextId>>
  /\ UNCHANGED <<execVars, valVars>>

\* receive_json raises on a frame that is not JSON, or data.get raises on a
\* frame that is not an object: nothing catches it, the handler task ends and
\* the server closes the connection of the ended endpoint; the entry of the
\* session stays in the table
HMalformed(h) ==
  /\ hpc[h] = "recv"
  /\ chan[h] = "open"
  /\ hpc' = [hpc EXCEPT ![h] = "dead"]
  /\ chan' = [chan EXCEPT ![h] = "broken"]
  /\ UNCHANGED <<active_connections, cid, inbox, nextId>>
  /\ UNCHANGED <<execVars, valVars>>

\* inbound frames that the handler answers without executing anything:
\*   "noaction"        no action             -> error
\*   "unknown"         unknown action        -> status, error
\*   "demo_noid"       demo without demo_id  -> status, error
\*   "demo_unknown"    demo not registered   -> status, error
\*   "demo_badparams"  validate_params fails -> status, error
\*   "prepare_bad"     params is not an object: params.get raises inside the
\*                     try                   -> status, error, complete(false)
ImmediateKinds ==
  {"noaction", "unknown", "demo_noid", "demo_unknown", "demo_badparams", "prepare_bad"}

ImmediateFrames(h, kind) ==
  CASE kind = "noaction" -> <<ErrorFrame(h)>>
    [] kind = "prepare_bad" -> <<StatusFrame(h), ErrorFrame(h), CompleteFrame(h, FALSE)>>
    [] OTHER -> <<StatusFrame(h), ErrorFrame(h)>>

HImmediate(h, kind) ==
  /\ hpc[h] = "recv"
  /\ chan[h] = "open"
  /\ Send(h, ImmediateFrames(h, kind), TRUE)
  /\ UNCHANGED <<hpc, cid, chan, nextId>>
  /\ UNCHANGED <<execVars, valVars>>

\* (mutation of HDemoDlp: the next frame is read while a command executes)
HDemoDlp_WhileExecuting(h, pod) ==
  /\ hpc[h] \in {"recv", "demo"}
  /\ chan[h] = "open"
  /\ Send(h, <<StatusFrame(h), OutputFrame(h, InfoLine(1))>>, TRUE)
  /\ ExecInPodStart(h, pod, NAMESPACE, NAMESPACE)
  /\ hpc' = [hpc EXCEPT ![h] = "demo"]
  /\ UNCHANGED <<cid, chan, nextId, valVars>>

\* action "demo", demo_id "dlp": status, the preamble of DLPDemo.execute (its
\* [INFO] and [CMD] lines, as one line), then kubectl.exec_in_pod with
\* namespace=NAMESPACE on the handler's Kubectl(namespace=NAMESPACE)
HDemoDlp(h, pod) ==
  /\ hpc[h] = "recv"
  /\ chan[h] = "open"
  /\ Send(h, <<StatusFrame(h), OutputFrame(h, InfoLine(1))>>, TRUE)
  /\ ExecInPodStart(h, pod, NAMESPACE, NAMESPACE)
  /\ hpc' = [hpc EXCEPT ![h] = "demo"]
  /\ UNCHANGED <<cid, chan, nextId, valVars>>

\* a line came out of exec_in_pod: DLPDemo.execute yields it, the handler
\* sends it as an output frame and asks for the next one
HForward(h) ==
  /\ hpc[h] = "demo"
  /\ kpc[h] \in {"s_yield", "s_yield_to", "s_yield_exc"}
  /\ Send(h, <<OutputFrame(h, yielded[h][Len(yielded[h])])>>, FALSE)
  /\ StreamResume(h)
  /\ UNCHANGED <<hpc, cid, chan, nextId, valVars>>

\* the generators of a finished action are dropped, and with them the state
\* of the call (its process has exited, or never existed)
Release(c) ==
  /\ kpc' = [kpc EXCEPT ![c] = "idle"]
  /\ kreq' = [kreq EXCEPT ![c] = NoReq]
  /\ kres' = [kres EXCEPT ![c] = NoRes]
  /\ proc' = [proc EXCEPT ![c] = NoProc]
  /\ pipe' = [pipe EXCEPT ![c] = <<>>]
  /\ timer' = [timer EXCEPT ![c] = "off"]
  /\ yielded' = [yielded EXCEPT ![c] = <<>>]
  /\ UNCHANGED <<spawned, spawnCount, kprev>>

\* exec_in_pod is over.  If it raised, DLPDemo.execute yields an [ERROR] line
\* and returns; otherwise it yields its closing [INFO] lines (as one line).
\* Either way the generator ends normally and the handler sends complete.
HDemoEnd(h) ==
  /\ hpc[h] = "demo"
  /\ kpc[h] = "done"
  /\ Send(h, <<OutputFrame(h, IF kres[h].kind = "ended" THEN InfoLine(2) ELSE ExcLine),
               CompleteFrame(h, TRUE)>>, FALSE)
  /\ hpc' = [hpc EXCEPT ![h] = "recv"]
  /\ Release(h)
  /\ UNCHANGED <<cid, chan, nextId, valVars>>

\* the deadline of run_streaming passes while the handler is suspended in
\* send_output: CancelledError is no Exception, nothing in the handler catches
\* it, the handler task ends and the server closes the connection
HCancelled(h) ==
  /\ hpc[h] = "demo"
  /\ StreamCancelledAtYield(h)
  /\ hpc' = [hpc EXCEPT ![h] = "dead"]
  /\ chan' = [chan EXCEPT ![h] = "broken"]
  /\ UNCHANGED <<active_connections, cid, inbox, nextId, valVars>>

\* --------------------------------------------- specification of the sessions
SConnect == \E h \in Sessions : Connect(h)

SChannelBreak == \E h \in Sessions : ChannelBreak(h)

SDisconnect == \E h \in Sessions : HDisconnect(h)

SMalformed == \E h \in Sessions : HMalformed(h)

SImmediate == \E h \in Sessions, kind \in ImmediateKinds : HImmediate(h, kind)

SDemoDlp == \E h \in Sessions, pod \in PodInputs : HDemoDlp(h, pod)

SForward == \E h \in Sessions : HForward(h)

SDemoEnd == \E h \in Sessions : HDemoEnd(h)

SCancelled == \E h \in Sessions : HCancelled(h)

SStreamReadLine == (\E h \in Sessions : StreamReadLine(h)) /\ UNCHANGED <<sessVars, valVars>>

SStreamEOF == (\E h \in Sessions : StreamEOF(h)) /\ UNCHANGED <<sessVars, valVars>>

SStreamTimeout == (\E h \in Sessions : StreamTimeout(h)) /\ UNCHANGED <<sessVars, valVars>>

SStreamWaitDone == (\E h \in Sessions : StreamWaitDone(h)) /\ UNCHANGED <<sessVars, valVars>>

SChildWrite == (\E h \in Sessions : ChildWrite(h)) /\ UNCHANGED <<sessVars, valVars>>

SChildCloseOut == (\E h \in Sessions : ChildCloseOut(h)) /\ UNCHANGED <<sessVars, valVars>>

\* (the streaming path never reads the exit code)
SChildExit == (\E h \in Sessions : ChildExit(h, 0)) /\ UNCHANGED <<sessVars, valVars>>

NextSession ==
  \/ SConnect
  \/ SChannelBreak
  \/ SDisconnect
  \/ SMalformed
  \/ SImmediate
  \/ SDemoDlp
  \/ SForward
  \/ SDemoEnd
  \/ SCancelled
  \/ SStreamReadLine
  \/ SStreamEOF
  \/ SStreamTimeout
  \/ SStreamWaitDone
  \/ SChildWrite
  \/ SChildCloseOut
  \/ SChildExit

SpecSession == Init /\ [][NextSession]_vars

\* the executor with the scheduling the event loop guarantees: a coroutine
\* whose await has completed is resumed, a deadline that has passed fires, a
\* consumer that iterates asks for the next line.  Nothing is assumed of the
\* child process or of the arrival of calls.
FairSpecExec ==
  /\ SpecExec
  /\ WF_vars(ApiRunReturn)
  /\ WF_vars(ApiRunTimeout)
  /\ WF_vars(ApiStreamReadLine)
  /\ WF_vars(ApiStreamEOF)
  /\ WF_vars(ApiStreamTimeout)
  /\ WF_vars(ApiStreamResume)
  /\ WF_vars(ApiStreamWaitDone)

\* the sessions with the scheduling the event loop guarantees: a handler or
\* generator whose await has completed is resumed and a deadline that has
\* passed fires.  Nothing is assumed of the child processes, of the clients
\* or of the arrival of inbound frames.
FairSpecSession ==
  /\ SpecSession
  /\ WF_vars(SForward)
  /\ WF_vars(SDemoEnd)
  /\ WF_vars(SStreamReadLine)
  /\ WF_vars(SStreamEOF)
  /\ WF_vars(SStreamTimeout)
  /\ WF_vars(SStreamWaitDone)

\* ------------------------------ the manager called by interleaving tasks
MaxClients == 3

\* ConnectionManager.connect for a new websocket w under a fresh id
MConnect(w) ==
  /\ nextId <= MaxClients
  /\ w \notin {active_connections[i] : i \in DOMAIN active_connections}
  /\ chan' = [chan EXCEPT ![w] = "open"]
  /\ active_connections' = [i \in DOMAIN active_connections \cup {nextId} |->
                              IF i = nextId THEN w ELSE active_connections[i]]
  /\ mcall' = [op |-> "connect", id |-> nextId, before |-> active_connections,
                after |-> active_connections']
  /\ nextId' = nextId + 1
  /\ UNCHANGED <<hpc, cid, inbox, bcast, diag>>
  /\ UNCHANGED <<execVars, vname, vresult, cmdIn, cmdOut>>

\* ConnectionManager.disconnect(client_id), for any id
MDisconnect(client_id) ==
  /\ active_connections' = Disconnected(active_connections, client_id)
  /\ mcall' = [op |-> "disconnect", id |-> client_id, before |-> active_connections,
                after |-> active_connections']
  /\ UNCHANGED <<hpc, cid, chan, inbox, nextId, bcast, diag>>
  /\ UNCHANGED <<execVars, vname, vresult, cmdIn, cmdOut>>

\* the connection of a connected websocket breaks
MChannelBreak(w) ==
  /\ w \in {active_connections[i] : i \in DOMAIN active_connections}
  /\ chan[w] = "open"
  /\ chan' = [chan EXCEPT ![w] = "broken"]
  /\ UNCHANGED <<active_connections, hpc, cid, inbox, nextId, mcall, bcast, diag>>
  /\ UNCHANGED <<execVars, vname, vresult, cmdIn, cmdOut>>

\* broadcast with locals b, from the for statement asking the iterator for
\* the next item up to the next await, or to the end of the method.  The table
\* keeps its entries in insertion order, which is the order of the ids; the
\* iterator raises RuntimeError when the size of the dict changed, ends when
\* no entry follows its position, raises RuntimeError when it has handed out
\* as many items as the dict had, and else hands out the next entry.  After
\* the loop every id of the local list is disconnected.
BroadcastNext(b) ==
  LET conns == active_connections
      rest == {i \in DOMAIN conns : i > b.pos}
  IN  IF Cardinality(DOMAIN conns) # b.used
      THEN /\ bcast' = [b EXCEPT !.pc = "raised"]
           /\ UNCHANGED active_connections
      ELSE IF rest = {}
      THEN /\ bcast' = [b EXCEPT !.pc = "done"]
           /\ active_connections' = [i \in DOMAIN conns \ b.disconnected |-> conns[i]]
      ELSE IF b.len = 0
      THEN /\ bcast' = [b EXCEPT !.pc = "raised"]
           /\ UNCHANGED active_connections
      ELSE LET i == CHOOSE j \in rest : \A k \in rest : j <= k
           IN  /\ bcast' = [b EXCEPT !.pc = "send", !.cur = i, !.ws = conns[i],
                                      !.pos = i, !.len = b.len - 1]
               /\ UNCHANGED active_connections

\* a task calls broadcast(message)
BroadcastStart ==
  /\ bcast.pc \in {"idle", "done", "raised"}
  /\ BroadcastNext([NoBroadcast EXCEPT
                      !.used = Cardinality(DOMAIN active_connections),
                      !.len = Cardinality(DOMAIN active_connections),
                      !.start = active_connections])
  /\ UNCHANGED <<hpc, cid, chan, inbox, nextId, mcall, diag>>
  /\ UNCHANGED <<execVars, vname, vresult, cmdIn, cmdOut>>

\* await websocket.send_json(message) completes: delivered, or it raised and
\* the id joins the local list; then the loop goes on
BroadcastSent ==
  /\ bcast.pc = "send"
  /\ BroadcastNext(IF Raises(bcast.ws)
                   THEN [bcast EXCEPT !.disconnected = @ \cup {bcast.cur}]
                   ELSE [bcast EXCEPT !.got = Append(@, bcast.cur)])
  /\ UNCHANGED <<hpc, cid, chan, inbox, nextId, mcall, diag>>
  /\ UNCHANGED <<execVars, vname, vresult, cmdIn, cmdOut>>

NextManager ==
  \/ \E w \in Sessions : MConnect(w)
  \/ \E client_id \in 1..MaxClients : MDisconnect(client_id)
  \/ \E w \in Sessions : MChannelBreak(w)
  \/ BroadcastStart
  \/ BroadcastSent

SpecManager == Init /\ [][NextManager]_vars

\* ---------------------------------------------- the diagnostic orchestrator
\* the statuses the body of a probe returns when nothing in it raises
ProbeOutcomes(c) ==
  CASE c = "kubernetes" -> {"ok", "error"}
    [] c = "demo-namespace" -> {"ok", "error"}
    [] c = "demo-pods" -> {"ok", "warning", "error"}
    [] c = "neuvector-groups" -> {"ok", "warning", "error"}
    [] OTHER -> {"ok", "warning"}

\* a DiagnosticCheck; skipped: a placeholder with a "Skipped (...)" message,
\* appended with status error for a check of a phase that is not run
Check(id, status, skipped) == [id |-> id, status |-> status, skipped |-> skipped]

\* (mutation of Gather: the results come in the reverse of the argument order)
Gather_Reversed(ids, probe) ==
  [k \in DOMAIN ids |->
     Check(ids[Len(ids) + 1 - k], probe[ids[Len(ids) + 1 - k]], FALSE)]

\* what asyncio.gather returns once every coroutine has returned: the
\* results in the order of the arguments
Gather(ids, probe) == [k \in DOMAIN ids |-> Check(ids[k], probe[ids[k]], FALSE)]

\* asyncio.gather(...) schedules the coroutines of a phase
Launch(probe, ids) ==
  [c \in Members(AllChecks) |-> IF c \in Members(ids) THEN "running" ELSE probe[c]]

\* the coroutine of check c has been called
Invoked(probe, c) == probe[c] # "idle"

\* every coroutine of the gather has returned a check
Resolved(probe, ids) ==
  \A c \in Members(ids) : probe[c] \in {"ok", "warning", "error"}

\* DiagnosticsSummary of the normal path
Summary(checks) ==
  LET Count(status) == Cardinality({k \in DOMAIN checks : checks[k].status = status})
  IN  [total |-> Len(checks), ok |-> Count("ok"), warning |-> Count("warning"),
       error |-> Count("error")]

\* the DiagnosticsResponse of the normal path, and that of the except clause:
\* the checks collected so far, and a summary of zeros
Response(success, checks) ==
  [kind |-> "response", success |-> success, checks |-> checks,
   summary |-> IF success THEN Summary(checks)
               ELSE [total |-> 0, ok |-> 0, warning |-> 0, error |-> 0]]

\* (mutation of EnvGate: the Environment probes are always run)
EnvGate_Always(k8s_status) == TRUE

\* if k8s_check.status != DiagnosticStatus.ERROR
EnvGate(k8s_status) == k8s_status # "error"

\* (mutation of VendorGate: the vendor-config probes are always run)
VendorGate_Always(bound) == TRUE

\* if api is not None
VendorGate(bound) == bound

\* (mutation of Logout: the token is kept)
Logout_KeepsToken(nv) == nv

\* NeuVectorAPI.logout: the DELETE is sent when there is a token, whatever
\* comes of it is ignored, and the token is forgotten
Logout(nv) == [nv EXCEPT !.token = FALSE]

\* NeuVectorAPI.close when aclose() returns (only with a client is there an
\* aclose() that can raise)
Close(nv) == [nv EXCEPT !.client = IF @ = "open" THEN "closed" ELSE @]

\* run_diagnostics with locals d, from "Phase 3" to its next await or to the
\* return of the response
VendorPhase(d) ==
  IF VendorGate(d.bound)
  THEN [d EXCEPT !.pc = "config", !.probe = Launch(d.probe, ConfigChecks)]
  ELSE LET checks == d.checks \o [k \in DOMAIN ConfigChecks |-> Check(ConfigChecks[k], "error", TRUE)]
       IN  [d EXCEPT !.pc = "returned", !.checks = checks,
                     !.response = Response(TRUE, checks)]

\* POST /diagnostics arrives: run_diagnostics up to the first gather
DiagStart(password) ==
  /\ diag.pc = "idle"
  /\ diag' = [NoRun EXCEPT !.pc = "infra", !.password = password,
                           !.probe = Launch(NoRun.probe, InfraChecks)]
  /\ UNCHANGED <<execVars, sessVars, vname, vresult, cmdIn, cmdOut, mcall, bcast>>

\* a probe other than the vendor-API check returns: with a status of its
\* body, or with error from its except clause when the body raised (fault).
\* reordered: an earlier coroutine of the same gather is still running.
ProbeResolve(c, status, fault) ==
  /\ c # "neuvector-api"
  /\ diag.probe[c] = "running"
  /\ IF fault THEN status = "error" ELSE status \in ProbeOutcomes(c)
  /\ diag' = [diag EXCEPT
                !.probe[c] = status,
                !.faulted = IF fault THEN @ \cup {c} ELSE @,
                !.reordered = @ \/ \E k, j \in DOMAIN AllChecks :
                                      /\ AllChecks[k] = c
                                      /\ j < k
                                      /\ diag.probe[AllChecks[j]] = "running"]
  /\ UNCHANGED <<execVars, sessVars, vname, vresult, cmdIn, cmdOut, mcall, bcast>>

\* _check_neuvector_api returns or raises.  Without a password: error, and
\* no client is made.  authenticate() returns: ok, and the client is handed
\* to run_diagnostics.  authenticate() raises: the except clause awaits
\* api.close() and then returns error, unless close raises too, and then the
\* coroutine raises.
CheckNeuvectorApi(authenticated, close_raises) ==
  /\ diag.probe["neuvector-api"] = "running"
  /\ diag.password \/ (authenticated /\ ~close_raises)
  /\ diag' =
       IF ~diag.password
       THEN [diag EXCEPT !.probe["neuvector-api"] = "error"]
       ELSE IF authenticated
       THEN [diag EXCEPT !.probe["neuvector-api"] = "ok",
                         !.nv = [token |-> TRUE, client |-> "open"],
                         !.authed = TRUE]
       ELSE LET nv == [token |-> FALSE, client |-> "open"]
            IN  [diag EXCEPT
                   !.faulted = @ \cup {"neuvector-api"},
                   !.probe["neuvector-api"] = IF close_raises THEN "raised" ELSE "error",
                   !.nv = IF close_raises THEN nv ELSE Close(nv)]
  /\ UNCHANGED <<execVars, sessVars, vname, vresult, cmdIn, cmdOut, mcall, bcast>>

\* the first gather returns: both checks are appended, then Phase 2 starts or
\* is skipped, and when it is skipped Phase 3 follows at once
DiagAfterInfra ==
  /\ diag.pc = "infra"
  /\ Resolved(diag.probe, InfraChecks)
  /\ LET checks == Gather(InfraChecks, diag.probe)
         d == [diag EXCEPT !.bound = diag.probe["neuvector-api"] = "ok"]
     IN  diag' = IF EnvGate(checks[1].status)
                 THEN [d EXCEPT !.pc = "env", !.checks = checks,
                                !.probe = Launch(diag.probe, EnvChecks)]
                 ELSE VendorPhase([d EXCEPT
                        !.checks = checks \o [k \in DOMAIN EnvChecks |->
                                                Check(EnvChecks[k], "error", TRUE)]])
  /\ UNCHANGED <<execVars, sessVars, vname, vresult, cmdIn, cmdOut, mcall, bcast>>

\* the first gather raises because _check_neuvector_api raised: api is still
\* None, the except clause returns the failure response
DiagInfraRaised ==
  /\ diag.pc = "infra"
  /\ diag.probe["neuvector-api"] = "raised"
  /\ diag' = [diag EXCEPT !.pc = "returned",
                          !.response = Response(FALSE, diag.checks)]
  /\ UNCHANGED <<execVars, sessVars, vname, vresult, cmdIn, cmdOut, mcall, bcast>>

\* the second gather returns
DiagAfterEnv ==
  /\ diag.pc = "env"
  /\ Resolved(diag.probe, EnvChecks)
  /\ diag' = VendorPhase([diag EXCEPT
                            !.checks = @ \o Gather(EnvChecks, diag.probe)])
  /\ UNCHANGED <<execVars, sessVars, vname, vresult, cmdIn, cmdOut, mcall, bcast>>

\* the third gather returns: the checks are appended, api.logout() is awaited
DiagAfterConfig ==
  /\ diag.pc = "config"
  /\ Resolved(diag.probe, ConfigChecks)
  /\ diag' = [diag EXCEPT !.pc = "logout",
                          !.checks = @ \o Gather(ConfigChecks, diag.probe)]
  /\ UNCHANGED <<execVars, sessVars, vname, vresult, cmdIn, cmdOut, mcall, bcast>>

\* api.logout() returns, api.close() is awaited
DiagLogout ==
  /\ diag.pc = "logout"
  /\ diag' = [diag EXCEPT !.pc = "close", !.nv = Logout(diag.nv)]
  /\ UNCHANGED <<execVars, sessVars, vname, vresult, cmdIn, cmdOut, mcall, bcast>>

\* api.close() of the normal path returns, and the response is built; or it
\* raises, and the except clause awaits api.close() again
DiagClose(raises) ==
  /\ diag.pc = "close"
  /\ raises => diag.nv.client = "open"
  /\ diag' = IF raises
              THEN [diag EXCEPT !.pc = "except_close"]
              ELSE [diag EXCEPT !.pc = "returned", !.nv = Close(diag.nv),
                                !.response = Response(TRUE, diag.checks)]
  /\ UNCHANGED <<execVars, sessVars, vname, vresult, cmdIn, cmdOut, mcall, bcast>>

\* api.close() of the except clause returns, and the failure response is
\* returned; or it raises, and the exception leaves run_diagnostics
DiagExceptClose(raises) ==
  /\ diag.pc = "except_close"
  /\ raises => diag.nv.client = "open"
  /\ diag' = IF raises
              THEN [diag EXCEPT !.pc = "raised"]
              ELSE [diag EXCEPT !.pc = "returned", !.nv = Close(diag.nv),
                                !.response = Response(FALSE, diag.checks)]
  /\ UNCHANGED <<execVars, sessVars, vname, vresult, cmdIn, cmdOut, mcall, bcast>>

NextDiag ==
  \/ \E password \in BOOLEAN : DiagStart(password)
  \/ \E c \in Members(AllChecks), status \in {"ok", "warning", "error"}, fault \in BOOLEAN :
       ProbeResolve(c, status, fault)
  \/ \E authenticated, close_raises \in BOOLEAN :
       CheckNeuvectorApi(authenticated, close_raises)
  \/ DiagAfterInfra
  \/ DiagInfraRaised
  \/ DiagAfterEnv
  \/ DiagAfterConfig
  \/ DiagLogout
  \/ \E raises \in BOOLEAN : DiagClose(raises)
  \/ \E raises \in BOOLEAN : DiagExceptClose(raises)

SpecDiag == Init /\ [][NextDiag]_vars

\* ===================================================================== claims

\* C1: every process the system has spawned, by whatever entry point, was
\* spawned after its subcommand passed validate_command and, when it carries
\* a '-n <namespace>' pair, after that namespace passed validate_namespace.
C1_EverySpawnValidated ==
  \A p \in spawned :
    /\ "command" \in p.checked
    /\ p.sub \in ALLOWED_KUBECTL_COMMANDS
    /\ p.ns # <<>> => "namespace" \in p.checked /\ validate_namespace(p.ns)

\* the calls C2 is about: no arguments, a first argument outside the
\* allowlist, or an effective namespace that fails validate_namespace
C2_Invalid(req) ==
  \/ req.args = <<>>
  \/ req.args[1] \notin ALLOWED_KUBECTL_COMMANDS
  \/ req.ns # <<>> /\ ~validate_namespace(req.ns)

C2_CallState(c) == <<kpc[c], kreq[c], kres[c], proc[c], pipe[c], timer[c], yielded[c], kprev[c]>>

\* C2: a call of run or run_streaming (directly or through exec_in_pod) that
\* has no arguments, a subcommand outside the allowlist or an effective
\* namespace that fails validation ends at once with a validation error; the
\* count of spawned processes and the spawned processes are unchanged and the
\* call has no process.
C2_RejectedCallSpawnsNothing ==
  [][ ( /\ kpc[Direct] \in {"idle", "done"}
        /\ C2_CallState(Direct)' # C2_CallState(Direct)
        /\ kreq'[Direct].op \in {"run", "run_streaming", "exec_in_pod"}
        /\ C2_Invalid(kreq'[Direct]) )
      => ( /\ kpc'[Direct] = "done"
           /\ kres'[Direct].kind = "KubectlValidationError"
           /\ spawnCount' = spawnCount
           /\ spawned' = spawned
           /\ proc'[Direct].state = "none"
           /\ yielded'[Direct] = <<>>
           /\ UNCHANGED sessVars ) ]_vars

\* a run_streaming call was rejected for its namespace alone, after an
\* earlier call had spawned a process
C2_Witness ==
  /\ kpc[Direct] = "done"
  /\ kreq[Direct].op = "run_streaming"
  /\ kreq[Direct].args = <<"get", "pods">>
  /\ kreq[Direct].ns = KUBE_SYSTEM
  /\ kres[Direct].kind = "KubectlValidationError"
  /\ spawnCount > 0

\* C3: run never returns or raises while the process it spawned is still
\* running (on timeout the process is terminated first).
C3_NoProcessOutlivesRun ==
  \A c \in Callers :
    (kreq[c].op = "run" /\ kpc[c] = "done") => proc[c].state # "running"

\* the read loop of run_streaming was ended by its timeout
C6_TimedOutReading(c) ==
  /\ kreq[c].op \in {"run_streaming", "exec_in_pod"}
  /\ kres[c].cause = "timeout"
  /\ kres[c].kind # "CancelledError"
  /\ kpc[c] \in {"s_yield_to", "s_wait", "done"}

HandleState(c) ==
  IF kres[c].cause = "spawn" THEN "spawn_failed"
  ELSE IF proc[c].state = "exited"
       THEN (IF proc[c].kills > 0 THEN "killed_timeout" ELSE "completed")
       ELSE "open"

\* C7: with the timer and the coroutines scheduled fairly, every call of run
\* and every iteration of run_streaming that has spawned a process finishes,
\* whatever the child does, with the handle completed, killed_timeout or
\* spawn_failed.
C7_EveryCallEndsTerminal ==
  \A c \in {Direct} :
    (kpc[c] \in {"run_wait", "s_read"})
      ~> (kpc[c] = "done" /\ HandleState(c) \in {"completed", "killed_timeout", "spawn_failed"})

\* the outcome of the caller's finished call, and of the one before it
C9_Cur(c) == [op |-> kreq[c].op, kind |-> kres[c].kind, cause |-> kres[c].cause]

\* C9: the error run raises on timeout differs in kind from the error it
\* raises for a non-zero exit with check=true: of two calls of run, one timed
\* out and one failed by its exit code, the kinds of error are different.
C9_TimeoutKindDiffersFromExitKind ==
  \A c \in Callers :
    ( /\ kpc[c] = "done"
      /\ C9_Cur(c).op = "run"
      /\ kprev[c].op = "run"
      /\ {C9_Cur(c).cause, kprev[c].cause} = {"timeout", "nonzero"} )
    => C9_Cur(c).kind # kprev[c].kind

C10_Failures == {"validation", "spawn", "timeout"}

C10_Family(op) == IF op = "run" THEN "run" ELSE "run_streaming"

\* C10: no invocation that failed by validation, spawn failure or timeout is
\* reported as a normal completion, and of two failed invocations of the same
\* operation with different causes the kinds reported are different.
C10_FailureKindsDistinct ==
  \A c \in Callers :
    kpc[c] = "done" =>
      /\ C9_Cur(c).cause \in C10_Failures => C9_Cur(c).kind \notin {"returned", "ended"}
      /\ ( /\ C9_Cur(c).cause \in C10_Failures
           /\ kprev[c].cause \in C10_Failures
           /\ kprev[c].op # "none"
           /\ C10_Family(kprev[c].op) = C10_Family(C9_Cur(c).op)
           /\ kprev[c].cause # C9_Cur(c).cause )
         => kprev[c].kind # C9_Cur(c).kind

C4_Terminal(f) == f.type \in {"error", "complete"}

\* the frames of one inbound action: one status first, then outputs, then at
\* most one terminal frame, which is the last frame
C4_Ordered(fs) ==
  /\ fs[1].type = "status"
  /\ \A i \in 2..Len(fs) : fs[i].type # "status"
  /\ \A i \in 1..Len(fs) : C4_Terminal(fs[i]) => i = Len(fs)

\* C4: on a channel that stays open, the frames a session gets for one
\* inbound action are exactly one status, then outputs, then exactly one
\* terminal frame (complete or error, never both), on every path; the only
\* other reply is the lone error for a frame that carries no action.
C4_OneStatusOutputsOneTerminal ==
  \A h \in Sessions :
    (chan[h] = "open" /\ cid[h] \in DOMAIN active_connections /\ inbox[h] # <<>>) =>
      \/ inbox[h] = <<ErrorFrame(h)>>
      \/ /\ C4_Ordered(inbox[h])
         /\ hpc[h] = "recv" => C4_Terminal(inbox[h][Len(inbox[h])])

\* C5: a frame produced by the handler of one session is never delivered on
\* the channel of another session.
C5_NoCrossTalk ==
  \A w \in Sessions : \A i \in 1..Len(inbox[w]) : inbox[w][i].src = w

\* both sessions are executing a streaming command and each has received a
\* line of its own command's output
C5_Witness ==
  \A h \in Sessions :
    /\ hpc[h] = "demo"
    /\ kpc[h] \in {"s_read", "s_yield"}
    /\ \E i \in 1..Len(inbox[h]) : inbox[h][i] = OutputFrame(h, Rstrip(ChildLine(1)))

\* the client of h was told that its command was killed on timeout
C8_TimedOut(h) == \E i \in 1..Len(inbox[h]) : inbox[h][i] = OutputFrame(h, TimeoutLine)

\* C8: a command of the streaming path that was killed on timeout is never
\* closed by complete with success=true; once its action is over the client
\* has an error frame or complete with success=false.
C8_TimeoutReportedAsError ==
  \A h \in Sessions :
    C8_TimedOut(h) =>
      /\ \A i \in 1..Len(inbox[h]) :
           ~(inbox[h][i].type = "complete" /\ inbox[h][i].success)
      /\ (hpc[h] = "recv" /\ chan[h] = "open" /\ cid[h] \in DOMAIN active_connections) =>
           \E i \in 1..Len(inbox[h]) :
             \/ inbox[h][i].type = "error"
             \/ inbox[h][i].type = "complete" /\ ~inbox[h][i].success

\* the lines a child that wrote n lines produced, as run_streaming hands them on
C11_Lines(n) == [i \in 1..n |-> Rstrip(ChildLine(i))]

\* the output frames of fs that carry a line of the child process
C11_ProcessFrames(fs) ==
  LET IsData(f) == f.type = "output" /\ f.data.tag = "data"
  IN  SelectSeq(fs, IsData)

\* C11: a streaming call whose process exited by itself, before the deadline
\* fired, ends normally having yielded exactly the N lines the process wrote,
\* in the order it wrote them; and when the handler of a session closes such
\* a command on an open channel, the frames that carry process lines are
\* those N lines in order and the one terminal frame is the last frame.
C11_ExitedStreamYieldsAllLines ==
  [][ \A c \in Callers :
        /\ ( /\ kreq[c].op \in {"run_streaming", "exec_in_pod"}
             /\ kpc[c] \in {"s_read", "s_yield", "s_wait"}
             /\ proc[c].state = "exited"
             /\ proc[c].kills = 0
             /\ kpc'[c] = "done" )
           => ( /\ kres'[c].kind = "ended"
                /\ yielded'[c] = C11_Lines(proc[c].written) )
        /\ ( /\ c \in Sessions
             /\ hpc[c] = "demo"
             /\ hpc'[c] = "recv"
             /\ proc[c].state = "exited"
             /\ proc[c].kills = 0
             /\ chan[c] = "open"
             /\ cid[c] \in DOMAIN active_connections' )
           => ( /\ C11_ProcessFrames(inbox'[c])
                     = [i \in 1..proc[c].written |-> OutputFrame(c, Rstrip(ChildLine(i)))]
                /\ C4_Terminal(inbox'[c][Len(inbox'[c])])
                /\ \A i \in 1..(Len(inbox'[c]) - 1) : ~C4_Terminal(inbox'[c][i]) ) ]_vars

\* the channel of h is open and h is in the table
C12_Reachable(h) == chan[h] = "open" /\ cid[h] \in DOMAIN active_connections

\* the frames of the current action of h end in a terminal frame
C12_Closed(h) == inbox[h] # <<>> /\ C4_Terminal(inbox[h][Len(inbox[h])])

\* C12: an action for which the status frame was sent is eventually followed
\* by a terminal frame to the same session unless the channel goes away, and
\* the handler is never back at waiting for the next frame, on an open
\* channel, with the frames of its last action not closed by a terminal frame.
C12_StatusLeadsToTerminal ==
  /\ [](\A h \in Sessions :
          (hpc[h] = "recv" /\ C12_Reachable(h) /\ inbox[h] # <<>>) => C12_Closed(h))
  /\ \A h \in Sessions :
       (hpc[h] = "demo" /\ C12_Reachable(h) /\ inbox[h] # <<>>
                        /\ inbox[h][1] = StatusFrame(h))
         ~> (C12_Closed(h) \/ ~C12_Reachable(h))

C13_Ops == {"exec_in_pod", "apply_file", "delete_namespace", "wait_for_pods", "get_cluster_info"}

\* C13: every process spawned by a specialized operation names only
\* identifiers that pass the validators: the pod it names passes
\* validate_pod_name, and the namespace of its '-n' pair and the namespace it
\* names as an argument pass validate_namespace.
C13_SpecializedOpsValidate ==
  \A p \in spawned :
    p.via \in C13_Ops =>
      /\ p.pod # <<>> => validate_pod_name(p.pod)
      /\ p.ns # <<>> => validate_namespace(p.ns)
      /\ p.target # <<>> => validate_namespace(p.target)

\* what the contract says of a well-formed name of at most max_len characters
C14_WellFormed(v, max_len) ==
  /\ Len(v) >= 1
  /\ Len(v) <= max_len
  /\ \A i \in 1..Len(v) : v[i] \in Lower \cup Digit \cup {"-"}
  /\ v[1] \in Lower \cup Digit
  /\ v[Len(v)] \in Lower \cup Digit

\* C14: validate_namespace(v) is true exactly when v is non-empty, at most 63
\* characters long, made of lowercase alphanumerics and hyphens with an
\* alphanumeric first and last character, and in the allowed set.
C14_NamespaceValidIffWellFormedAndAllowed ==
  vresult.done =>
    (vresult.ns <=> (C14_WellFormed(vname, 63) /\ vname \in ALLOWED_NAMESPACES))

\* a well-formed namespace outside the allowed set was rejected
C14_Witness ==
  /\ vresult.done
  /\ vname = KUBE_SYSTEM
  /\ ~vresult.ns

\* C15: validate_pod_name(v) is true only if v is non-empty, at most 253
\* characters long and made, in whole, of lowercase alphanumerics and hyphens
\* with an alphanumeric first and last character.
C15_PodNameValidOnlyIfWellFormed ==
  (vresult.done /\ vresult.pod) => C14_WellFormed(vname, 253)

\* C16: the argv of a process spawned by run or run_streaming is the
\* executable name, then the '--kubeconfig <path>' pair if the instance has a
\* kubeconfig, then one '-n <ns>' pair if the explicit namespace or, failing
\* that, the default namespace of the instance is non-empty (ns being that
\* namespace, which passed validate_namespace), then the caller's arguments,
\* one element each, unmodified and in the caller's order.
C16_ArgvIsLiteralVector ==
  cmdOut.state = "spawned" =>
    LET a == cmdOut.argv
        n == Len(cmdIn.args)
        want == IF cmdIn.namespace # <<>> THEN cmdIn.namespace
                ELSE cmdIn.default_namespace
        kc == IF cmdIn.kubeconfig # ""
              THEN <<Lit("--kubeconfig"), Lit(cmdIn.kubeconfig)>> ELSE <<>>
        nsp == IF want # <<>> THEN <<Lit("-n"), NsTok(want)>> ELSE <<>>
    IN  /\ Len(a) = 1 + Len(kc) + Len(nsp) + n
        /\ SubSeq(a, 1, Len(a) - n) = <<Lit("kubectl")>> \o kc \o nsp
        /\ \A i \in 1..n : a[Len(a) - n + i] = Lit(cmdIn.args[i])
        /\ want # <<>> => validate_namespace(want)

\* a call with no explicit namespace on an instance with a kubeconfig and a
\* default namespace spawned an argument that holds blanks and a semicolon
C16_Witness ==
  /\ cmdOut.state = "spawned"
  /\ cmdIn.namespace = <<>>
  /\ cmdIn.default_namespace = NAMESPACE
  /\ cmdIn.kubeconfig # ""
  /\ cmdIn.args = <<"get", "pods -A; id">>

C18_Ended(h) == hpc[h] \in {"closed", "dead"}

C19_From(fs, h) ==
  LET FromH(f) == f.src = h
  IN  SelectSeq(fs, FromH)

C20_ConnectOrDisconnect ==
  \E h \in Sessions :
    \/ hpc[h] = "absent" /\ hpc'[h] = "recv"
    \/ hpc[h] = "recv" /\ hpc'[h] = "closed"

\* C20: the table of connections is changed only by connect and disconnect;
\* every send leaves it as it was, also when delivery fails.
C20_TableChangedOnlyByConnectDisconnect ==
  [][ active_connections' # active_connections => C20_ConnectOrDisconnect ]_vars

\* C21: disconnect(id) removes the entry of id and nothing else, and is
\* idempotent: a second call, or a call for an id that is not in the table,
\* changes nothing.
C21_DisconnectRemovesAndIsIdempotent ==
  mcall.op = "disconnect" =>
    /\ mcall.id \notin DOMAIN mcall.after
    /\ DOMAIN mcall.after = DOMAIN mcall.before \ {mcall.id}
    /\ \A j \in DOMAIN mcall.after : mcall.after[j] = mcall.before[j]
    /\ mcall.id \notin DOMAIN mcall.before => mcall.after = mcall.before
    /\ Disconnected(mcall.after, mcall.id) = mcall.after

\* a second disconnect of an id that was connected once, next to an entry of
\* another client
C21_Witness ==
  /\ mcall.op = "disconnect"
  /\ mcall.id < nextId
  /\ mcall.id \notin DOMAIN mcall.before
  /\ mcall.before # <<>>
  /\ mcall.after = mcall.before

\* C22: in every response of run_diagnostics, of the normal path and of the
\* failure path, summary.total is the number of checks in the response and
\* ok + warning + error = total, placeholders included.
C22_SummaryCountsEveryCheck ==
  diag.response.kind = "response" =>
    LET r == diag.response
    IN  /\ r.summary.total = Len(r.checks)
        /\ r.summary.ok + r.summary.warning + r.summary.error = r.summary.total

C25_FaultsNeverAbortTheRun ==
  diag.pc = "returned" =>
    LET r == diag.response
    IN  /\ Len(r.checks) = 8
        /\ \A k \in DOMAIN r.checks :
              /\ r.checks[k].id = AllChecks[k]
              /\ r.checks[k].id \in diag.faulted => r.checks[k].status = "error"
              /\ ~r.checks[k].skipped => r.checks[k].status = diag.probe[r.checks[k].id]

\* C26: run_diagnostics answers success=false only when it has no result
\* set; once every check has resolved the response has success=true and holds
\* all the checks.
C26_FailureOnlyWithoutResults ==
  diag.response.kind = "response" =>
    /\ Len(diag.checks) = 8 =>
         diag.response.success /\ Len(diag.response.checks) = 8
    /\ ~diag.response.success => diag.response.checks = <<>>

\* C27: no Environment or vendor-config probe starts before both
\* infrastructure checks resolved, no vendor-config probe starts before the
\* Environment phase is over, and the checks collected and returned are in
\* the fixed order whatever the order in which concurrent probes finished.
C27_PhasesOrdered ==
  /\ \A c \in Members(EnvChecks) \cup Members(ConfigChecks) :
        Invoked(diag.probe, c) => Resolved(diag.probe, InfraChecks) /\ Len(diag.checks) >= 2
  /\ \A c \in Members(ConfigChecks) :
        Invoked(diag.probe, c) =>
          /\ Len(diag.checks) >= 4
          /\ \A e \in Members(EnvChecks) : diag.probe[e] # "running"
  /\ \A k \in DOMAIN diag.checks : diag.checks[k].id = AllChecks[k]
  /\ \A k \in DOMAIN diag.response.checks : diag.response.checks[k].id = AllChecks[k]

\* a response of a run in which every probe ran and some probe finished
\* before an earlier one of its phase
C27_Witness ==
  /\ diag.response.kind = "response"
  /\ diag.reordered
  /\ Len(diag.response.checks) = 8
  /\ \A k \in 1..8 : ~diag.response.checks[k].skipped

\* C28: once the handler task of a session has ended, for whatever reason,
\* the id of that session is not in the table of connections.
C28_NoEntryOutlivesHandler ==
  \A h \in Sessions :
    hpc[h] \in {"closed", "dead"} => cid[h] \notin DOMAIN active_connections

C29_Delivered(i) == Cardinality({k \in 1..Len(bcast.got) : bcast.got[k] = i})

\* C29: a connect or disconnect by another task while broadcast is suspended
\* on a send does not make broadcast raise, and every client connected for
\* the whole broadcast gets the message exactly once.
C29_BroadcastSafeUnderInterleaving ==
  /\ bcast.pc # "raised"
  /\ \A i \in 1..MaxClients : C29_Delivered(i) <= 1
  /\ bcast.pc = "done" =>
       \A i \in DOMAIN bcast.start \cap DOMAIN active_connections :
          chan[active_connections[i]] = "open" => C29_Delivered(i) = 1

====
